---- MODULE Spec2Model ----
(***************************************************************************)
(* State-machine model of RooAbsGoodnessOfFit (RooFitCore): the goodness-  *)
(* of-fit engine with its three operation modes (Slave, SimMaster,         *)
(* MPMaster), its deferred one-time initialization, the slicing of the     *)
(* event range over partitions, the forwarding of structural changes, the  *)
(* copy constructor and the destructor.                                    *)
(*                                                                         *)
(* Collaborators whose code is outside RooAbsGoodnessOfFit.cxx (the pure   *)
(* virtuals create / evaluatePartition / combinedValue, RooRealMPFE,       *)
(* RooAbsData::split, RooErrorHandler::softAbort) are modelled from their  *)
(* documented interface and are marked as such where they are defined.     *)
(***************************************************************************)
EXTENDS Integers, Sequences, FiniteSets, TLC

(***************************************************************************)
(* Bounds of the model.                                                    *)
(***************************************************************************)
\* largest requested number of CPUs (nCPU) of the top-level engine
MaxCPU == 2
\* number of declared states of the index category of a RooSimultaneous
NCat == 2
\* largest number of entries of a non-composite dataset
MaxEvents == 2
\* largest numSets a caller passes to setMPSet
MaxSets == 2
\* parameter identities are 0..MaxParam (0: the parameters the pdf reports)
MaxParam == 1
\* width in bits of the model's stand-in for the signed Int_t
IntWidth == 6
\* largest numSets explored by the slicing specification
MaxSliceSets == 4
\* largest number of workers of the stepwise MPMaster specification
MaxWorkers == 3

VARIABLES
    cfg,      \* the pdf and the dataset the top-level engine is bound to
    orig,     \* the top-level engine object
    clone,    \* its copy (copy constructor), or NoEngine
    lastOp,   \* the last call the driver made: [op, slot, wasInit]
    lastRet,  \* per slot: value of the evaluate() calls since the last change
    call,     \* the MPMaster evaluate() in progress (stepwise specification)
    mpTrace,  \* calculate()/getVal() calls of the MPMaster evaluate() in progress
    sN, sK, sI, sBounds  \* slicing specification: nEvents, numSets, next
                         \* partition index, slices computed so far

vars == <<cfg, orig, clone, lastOp, lastRet, call, mpTrace, sN, sK, sI, sBounds>>
engineVars == <<cfg, orig, clone, lastOp, lastRet, call, mpTrace>>
sliceVars == <<sN, sK, sI, sBounds>>

(***************************************************************************)
(* Int_t arithmetic.                                                       *)
(***************************************************************************)
MaxInt == 2^(IntWidth - 1) - 1
MinInt == -(2^(IntWidth - 1))

\* two's-complement wrap-around of a product or sum held in an Int_t
WrapInt(x) ==
    LET m == 2^IntWidth
        r == x % m
    IN  IF r > MaxInt THEN r - m ELSE r

Abs(x) == IF x < 0 THEN -x ELSE x

\* C++ integer division: the quotient is truncated toward zero (d # 0)
TruncDiv(a, d) ==
    IF (a >= 0) = (d > 0) THEN Abs(a) \div Abs(d) ELSE -(Abs(a) \div Abs(d))

nFirstMutPerSetSize(nEvents, setNum, numSets) ==
    WrapInt(TruncDiv(nEvents, numSets) * setNum)
\* Int_t nFirst = _nEvents * _setNum / _numSets
nFirst(nEvents, setNum, numSets) ==
    TruncDiv(WrapInt(nEvents * setNum), numSets)

\* Int_t nLast = _nEvents * (_setNum+1) / _numSets
nLastMutPerSetSize(nEvents, setNum, numSets) ==
    WrapInt(TruncDiv(nEvents, numSets) * WrapInt(setNum + 1))
nLast(nEvents, setNum, numSets) ==
    TruncDiv(WrapInt(nEvents * WrapInt(setNum + 1)), numSets)

(***************************************************************************)
(* The slicing specification: the slices of one dataset of sN entries      *)
(* over sK partitions, computed partition by partition.                    *)
(***************************************************************************)
SliceInit ==
    /\ sN \in 0..MaxInt
    /\ sK \in 1..MaxSliceSets
    /\ sI = 0
    /\ sBounds = <<>>

\* the Slave-mode slice of partition sI, as evaluate() computes it
SliceNext ==
    /\ sI < sK
    /\ sBounds' = Append(sBounds, [first |-> nFirst(sN, sI, sK),
                                   last  |-> nLast(sN, sI, sK)])
    /\ sI' = sI + 1
    /\ UNCHANGED <<sN, sK>>

(***************************************************************************)
(* The model and the data the engine is bound to.                          *)
(***************************************************************************)
Cats == 1..NCat

\* number of entries of the data subset of category state c, when it has any
CatSize(c) == c

\* the pdf/data pairs a top-level engine can be constructed with: a plain pdf
\* over a dataset of nEvents entries, or a RooSimultaneous whose category
\* state c has a component pdf (hasPdf[c]) and/or data entries (hasData[c])
PlainConfigs(cpus) ==
    { [nCPU |-> n, sim |-> FALSE, nEvents |-> k, hasPdf |-> [c \in Cats |-> FALSE],
       hasData |-> [c \in Cats |-> FALSE], splitFails |-> FALSE] :
      n \in cpus, k \in 0..MaxEvents }

RECURSIVE SumOver(_, _)
SumOver(f, S) ==
    IF S = {} THEN 0
    ELSE LET x == CHOOSE y \in S : TRUE IN f[x] + SumOver(f, S \ {x})

SimConfigs(cpus) ==
    { [nCPU |-> n, sim |-> TRUE,
       nEvents |-> SumOver([c \in Cats |-> IF d[c] THEN CatSize(c) ELSE 0], Cats),
       hasPdf |-> p, hasData |-> d, splitFails |-> f] :
      n \in cpus, p \in [Cats -> BOOLEAN], d \in [Cats -> BOOLEAN],
      f \in BOOLEAN }

\* cat = 0 names the top-level pdf and the whole dataset, cat = c the
\* component pdf and the data subset of category state c

\* dynamic_cast<RooSimultaneous*>(&pdf)
IsSimultaneous(cat) == cat = 0 /\ cfg.sim

\* data.numEntries()
numEntries(cat) == IF cat = 0 THEN cfg.nEvents ELSE CatSize(cat)

\* identity of the parameters pdf.getParameters(&data) returns
PdfParams == 0
ParamIds == 0..MaxParam

\* simpdf->getPdf(type->GetName())
getPdf(c) == cfg.hasPdf[c]

\* dsetList->FindObject(type->GetName()): split() makes a subset for the
\* category states that have entries
FindObject(c) == cfg.hasData[c]

\* contribution of entry k of dataset cat under the parameters p
EntryValue(cat, k, p) == (k + 1) * (cat + 1) + 7 * p

\* evaluatePartition(nFirst,nLast): the sum of the contributions of the
\* entries nFirst .. nLast-1
RECURSIVE evaluatePartition(_, _, _, _)
evaluatePartition(cat, p, first, last) ==
    IF first >= last THEN 0
    ELSE EntryValue(cat, last - 1, p) + evaluatePartition(cat, p, first, last - 1)

\* combinedValue(array,n): the sum of the n values in array order
RECURSIVE combinedValue(_, _)
combinedValue(vals, n) ==
    IF n = 0 THEN 0 ELSE combinedValue(vals, n - 1) + vals[n]

(***************************************************************************)
(* Engine objects.                                                         *)
(***************************************************************************)
\* the outcomes of undefined behaviour (division by zero, null dereference):
\* "trap" is the fault the hardware raises, "lenient" the build in which the
\* instruction completes (AArch64 sdiv yields 0)
UBOutcomes == {"trap", "lenient"}

OpModeMutNoFallback(nCPU, simMode) ==
    IF nCPU >= 1 THEN "MPMaster"
    ELSE IF simMode THEN "SimMaster" ELSE "Slave"
\* the mode chosen by the constructor
OpMode(nCPU, simMode) ==
    IF nCPU > 1 THEN "MPMaster"
    ELSE IF simMode THEN "SimMaster" ELSE "Slave"

\* RooAbsGoodnessOfFit(name,title,pdf,data,projDeps,nCPU)
Ctor(id, cat, nCPU) ==
    [ id        |-> id,
      cat       |-> cat,
      status    |-> "ok",
      paramSet  |-> PdfParams,
      simCount  |-> 1,
      nGof      |-> 0,
      gofArray  |-> <<>>,
      gofNull   |-> TRUE,
      nCPU      |-> nCPU,
      mpfeArray |-> <<>>,
      mpfeNull  |-> TRUE,
      gofOpMode |-> OpMode(nCPU, IsSimultaneous(cat)),
      setNum    |-> 0,
      numSets   |-> 1,
      init      |-> FALSE,
      nEvents   |-> numEntries(cat),
      opcode    |-> "none",
      nOpt      |-> 0,
      nSetup    |-> 0,
      out       |-> <<>> ]

\* the virtual factory create(name,title,pdf,data,projDeps) of the concrete
\* class: a new engine of the same class with the default nCPU of 1
create(id, cat) == Ctor(id, cat, 1)

\* setSimCount(n) (declared inline in the class header)
setSimCount(e, n) == [e EXCEPT !.simCount = n]

Failed(e, how) == [e EXCEPT !.status = how]

\* the first element of a sequence of objects that is not "ok", or "ok"
RECURSIVE FirstBad(_, _)
FirstBad(objs, n) ==
    IF n = 0 THEN "ok"
    ELSE LET before == FirstBad(objs, n - 1)
         IN  IF before # "ok" THEN before ELSE objs[n].status

RECURSIVE CopyCtor(_, _, _), CloneMPFE(_, _, _)
RECURSIVE initialize(_), initSimMode(_), initMPMode(_), setMPSet(_, _, _)
RECURSIVE redirectServers(_, _), redirectServersHook(_, _), constOptimize(_, _)
RECURSIVE evaluate(_, _)

(***************************************************************************)
(* RooRealMPFE, the front-end of one worker: it owns a private copy of the *)
(* engine it is given and is Idle, Running or ResultReady.                 *)
(***************************************************************************)
\* new RooRealMPFE(name,title,*gof,doInline)
NewMPFE(id, gof, doInline) ==
    [ id     |-> id,
      arg    |-> CopyCtor(gof, id \o <<0>>, "trap"),
      inline |-> doInline,
      st     |-> "Idle",
      done   |-> FALSE,
      val    |-> 0,
      nOpt   |-> 0,
      status |-> "ok" ]

\* RooRealMPFE::Clone()
CloneMPFE(fe, id, ub) ==
    [fe EXCEPT !.id = id, !.arg = CopyCtor(fe.arg, id \o <<0>>, ub),
               !.st = "Idle", !.done = FALSE, !.val = 0]

\* RooRealMPFE::calculate(): the begin-calculation signal
calculate(fe) == [fe EXCEPT !.st = "Running", !.done = FALSE]

\* the worker evaluates its engine and has the result ready to be read
WorkerCompute(fe, ub) ==
    LET r == evaluate(fe.arg, ub)
    IN  [fe EXCEPT !.arg = r.e, !.val = r.val, !.done = TRUE,
                   !.status = r.e.status]

\* RooRealMPFE::getVal(): the blocking read of a result that is ready
getVal(fe) == [fe EXCEPT !.st = "ResultReady"]

\* RooRealMPFE::constOptimize(opcode): forwarded to the wrapped engine
MPFEconstOptimize(fe, opcode) ==
    LET a == constOptimize(fe.arg, opcode)
    IN  [fe EXCEPT !.arg = a, !.status = a.status, !.nOpt = @ + 1]

(***************************************************************************)
(* The copy constructor RooAbsGoodnessOfFit(other,name).                   *)
(***************************************************************************)
CopyCtorMutShallow(other, id, ub) ==
    [other EXCEPT !.id = id, !.nSetup = 0, !.out = <<>>]
CopyCtor(other, id, ub) ==
    LET base == [other EXCEPT !.id = id, !.nSetup = 0, !.out = <<>>,
                              !.gofArray = <<>>, !.gofNull = TRUE, !.nGof = 0,
                              !.mpfeArray = <<>>, !.mpfeNull = TRUE]
        \* if (operMode()==SimMaster): _nGof elements other._gofArray[i]->Clone()
        withGof ==
            IF other.gofOpMode = "SimMaster"
            THEN LET kids == [i \in 1..other.nGof |->
                                 CopyCtor(other.gofArray[i], id \o <<i>>, ub)]
                 IN  [base EXCEPT !.nGof = other.nGof, !.gofArray = kids,
                                  !.gofNull = FALSE,
                                  !.status = FirstBad(kids, other.nGof)]
            ELSE base
    IN  \* if (operMode()==MPMaster): _nCPU elements other._mpfeArray[i]->Clone()
        IF other.gofOpMode = "MPMaster"
        THEN IF other.mpfeNull
             THEN \* other._mpfeArray[0] reads through the null pointer
                  Failed(withGof, IF ub = "trap" THEN "crashed" ELSE "garbage")
             ELSE LET fes == [i \in 1..other.nCPU |->
                                 CloneMPFE(other.mpfeArray[i], id \o <<i>>, ub)]
                  IN  [withGof EXCEPT !.mpfeArray = fes, !.mpfeNull = FALSE,
                                      !.status = FirstBad(fes, other.nCPU)]
        ELSE withGof

(***************************************************************************)
(* initialize(), initSimMode(), initMPMode().                              *)
(***************************************************************************)
\* RooErrorHandler::softAbort(): control does not come back to the caller
softAbort(e) ==
    [e EXCEPT !.status = "aborted", !.out = Append(@, <<"abort", 0>>)]

\* TList* dsetList = data->split(simCat): null when the split fails
split(e) == ~cfg.splitFails

\* the test of the counting pass: if (pdf && dset) _nGof++
CountAccepts(c) == getPdf(c) /\ FindObject(c)

FillAcceptsMutPdfOnly(c) == getPdf(c)
\* the test of the filling pass: if (pdf && dset) { ... n++ }
FillAccepts(c) == getPdf(c) /\ FindObject(c)

\* the dataset the slave of category state c is created with
SlaveData(e, c) == c

NewSlaveMutNoSimCount(e, c, n, nGof) ==
    redirectServers(create(e.id \o <<n>>, SlaveData(e, c)), e.paramSet)
NewSlaveMutNoRedirect(e, c, n, nGof) ==
    setSimCount(create(e.id \o <<n>>, SlaveData(e, c)), nGof)
\* the slave GOF calculator #n created for category state c
NewSlave(e, c, n, nGof) ==
    redirectServers(setSimCount(create(e.id \o <<n>>, SlaveData(e, c)), nGof),
                    e.paramSet)

\* the filling pass over the category states c..NCat with n slaves made so far
RECURSIVE FillPass(_, _, _)
FillPass(e, c, n) ==
    IF c > NCat THEN e
    ELSE IF FillAccepts(c)
         THEN FillPass([e EXCEPT !.gofArray = Append(@, NewSlave(e, c, n + 1, e.nGof)),
                                 !.out = Append(@, <<"slave", c, n>>)],
                       c + 1, n + 1)
         ELSE IF ~FindObject(c) /\ getPdf(c)
              THEN FillPass([e EXCEPT !.out = Append(@, <<"nodata", c>>)], c + 1, n)
              ELSE FillPass(e, c + 1, n)

initSimModeMutIgnoreSplit(e) ==
    FillPass([e EXCEPT !.nGof = IF cfg.splitFails THEN 0
                                ELSE Cardinality({c \in Cats : CountAccepts(c)}),
                       !.gofArray = <<>>, !.gofNull = FALSE, !.nSetup = @ + 1],
             IF cfg.splitFails THEN NCat + 1 ELSE 1, 0)
initSimMode(e) ==
    IF ~split(e) THEN softAbort(e)
    ELSE FillPass([e EXCEPT !.nGof = Cardinality({c \in Cats : CountAccepts(c)}),
                            !.gofArray = <<>>, !.gofNull = FALSE,
                            !.nSetup = @ + 1],
                  1, 0)

WorkerSelectorMutAllFirst(i, nCPU) == <<0, nCPU>>
\* the selector of worker i: gof->setMPSet(i,_nCPU)
WorkerSelector(i, nCPU) == <<i, nCPU>>

MPLoopMutSharedProto(e, gof, i) ==
    LET g == setMPSet(gof, e.nCPU - 1, e.nCPU)
    IN  IF g.status # "ok"
        THEN [e EXCEPT !.status = g.status, !.out = @ \o g.out]
        ELSE [e EXCEPT !.mpfeArray = [k \in 1..e.nCPU |->
                                         NewMPFE(e.id \o <<k>>, g, k = e.nCPU)],
                       !.out = @ \o g.out]
\* the loop of initMPMode from worker i (0-based) on; gof is the prototype
RECURSIVE MPLoop(_, _, _)
MPLoop(e, gof, i) ==
    IF i >= e.nCPU \/ e.status # "ok" THEN e
    ELSE LET g == setMPSet(gof, WorkerSelector(i, e.nCPU)[1], WorkerSelector(i, e.nCPU)[2])
             doInline == (i = e.nCPU - 1)
         IN  IF g.status # "ok"
             THEN [e EXCEPT !.status = g.status, !.out = @ \o g.out]
             ELSE MPLoop([e EXCEPT !.mpfeArray =
                                       Append(@, NewMPFE(e.id \o <<i + 1>>, g, doInline)),
                                   !.out = IF i = 0 THEN @ \o g.out ELSE @],
                         g, i + 1)

initMPMode(e) ==
    MPLoop([e EXCEPT !.mpfeArray = <<>>, !.mpfeNull = FALSE, !.nSetup = @ + 1],
           create(e.id \o <<0>>, e.cat), 0)

initializeMutNoFlag(e) ==
    IF e.gofOpMode = "MPMaster" THEN initMPMode(e)
    ELSE IF e.gofOpMode = "SimMaster" THEN initSimMode(e)
    ELSE e
initialize(e) ==
    IF e.init THEN e
    ELSE LET r == IF e.gofOpMode = "MPMaster" THEN initMPMode(e)
                  ELSE IF e.gofOpMode = "SimMaster" THEN initSimMode(e)
                  ELSE e
         IN  IF r.status # "ok" THEN r ELSE [r EXCEPT !.init = TRUE]

(***************************************************************************)
(* setMPSet(), redirectServersHook(), constOptimize().                     *)
(***************************************************************************)
\* what setMPSet stores for a selector the caller passes
StoredSelector(setNum, numSets) == [setNum |-> setNum, numSets |-> numSets]

setMPSetMutNoForward(e, setNum, numSets) ==
    LET sel == StoredSelector(setNum, numSets)
        e1 == [e EXCEPT !.setNum = sel.setNum, !.numSets = sel.numSets]
    IN  IF e1.gofOpMode = "SimMaster" THEN initialize(e1) ELSE e1
setMPSet(e, setNum, numSets) ==
    LET sel == StoredSelector(setNum, numSets)
        e1 == [e EXCEPT !.setNum = sel.setNum, !.numSets = sel.numSets]
    IN  IF e1.gofOpMode = "SimMaster"
        THEN LET e2 == initialize(e1)
             IN  IF e2.status # "ok" THEN e2
                 ELSE [e2 EXCEPT !.gofArray =
                          [i \in 1..e2.nGof |-> setMPSet(e2.gofArray[i], setNum, numSets)]]
        ELSE e1

\* RooAbsArg::recursiveRedirectServers(newServerList): the servers of the
\* object are replaced, then its redirectServersHook is called
redirectServers(e, p) == redirectServersHook([e EXCEPT !.paramSet = p], p)

redirectServersHook(e, p) ==
    IF e.gofOpMode = "SimMaster"
    THEN [e EXCEPT !.gofArray =
             [i \in 1..e.nGof |-> redirectServers(e.gofArray[i], p)]]
    ELSE \* MPMaster: "WVE implement this"
         e

constOptimizeMutNoMPForward(e, opcode) ==
    LET e1 == initialize([e EXCEPT !.opcode = opcode, !.nOpt = @ + 1])
    IN  IF e1.status # "ok" THEN e1
        ELSE IF e1.gofOpMode = "SimMaster"
        THEN LET kids == [i \in 1..e1.nGof |-> constOptimize(e1.gofArray[i], opcode)]
             IN  [e1 EXCEPT !.gofArray = kids, !.status = FirstBad(kids, e1.nGof)]
        ELSE e1
constOptimize(e, opcode) ==
    LET e1 == initialize([e EXCEPT !.opcode = opcode, !.nOpt = @ + 1])
    IN  IF e1.status # "ok" THEN e1
        ELSE IF e1.gofOpMode = "SimMaster"
        THEN LET kids == [i \in 1..e1.nGof |-> constOptimize(e1.gofArray[i], opcode)]
             IN  [e1 EXCEPT !.gofArray = kids, !.status = FirstBad(kids, e1.nGof)]
        ELSE IF e1.gofOpMode = "MPMaster"
        THEN LET fes == [i \in 1..e1.nCPU |-> MPFEconstOptimize(e1.mpfeArray[i], opcode)]
             IN  [e1 EXCEPT !.mpfeArray = fes, !.status = FirstBad(fes, e1.nCPU)]
        ELSE e1

(***************************************************************************)
(* The destructor ~RooAbsGoodnessOfFit(): the object as it was when the    *)
(* destructor ran, with the objects the destructor deleted, in order.      *)
(***************************************************************************)
Destructor(e) ==
    LET \* if (_gofOpMode==MPMaster && _init): delete _mpfeArray[i], i < _nCPU
        mpfes == IF e.gofOpMode = "MPMaster" /\ e.init
                 THEN [i \in 1..e.nCPU |-> e.mpfeArray[i].id] ELSE <<>>
        \* if (_gofOpMode==SimMaster && _init): delete _gofArray[i], i < _nGof
        gofs  == IF e.gofOpMode = "SimMaster" /\ e.init
                 THEN [i \in 1..e.nGof |-> e.gofArray[i].id] ELSE <<>>
    IN  [f \in DOMAIN e \cup {"freed"} |->
            IF f = "freed" THEN mpfes \o gofs
            ELSE IF f = "status" THEN "destroyed" ELSE e[f]]

(***************************************************************************)
(* evaluate(): the result is [e |-> the engine afterwards, val |-> the     *)
(* value returned]; val means nothing when e.status is not "ok".           *)
(***************************************************************************)
\* Slave: nFirst, nLast and evaluatePartition(nFirst,nLast)
evaluateSlave(e, ub) ==
    IF e.numSets = 0
    THEN \* division by zero
         IF ub = "trap" THEN [e |-> Failed(e, "crashed"), val |-> 0]
         ELSE [e |-> e, val |-> evaluatePartition(e.cat, e.paramSet, 0, 0)]
    ELSE LET first == nFirst(e.nEvents, e.setNum, e.numSets)
             last  == nLast(e.nEvents, e.setNum, e.numSets)
         IN  IF first < last /\ (first < 0 \/ last > numEntries(e.cat))
             THEN \* entries that the dataset does not have are read
                  [e |-> Failed(e, "garbage"), val |-> 0]
             ELSE [e |-> e, val |-> evaluatePartition(e.cat, e.paramSet, first, last)]

\* SimMaster: combinedValue(_gofArray,_nGof), which reads getVal() of each
evaluateSim(e, ub) ==
    LET rs   == [i \in 1..e.nGof |-> evaluate(e.gofArray[i], ub)]
        kids == [i \in 1..e.nGof |-> rs[i].e]
        vals == [i \in 1..e.nGof |-> rs[i].val]
    IN  [e |-> [e EXCEPT !.gofArray = kids, !.status = FirstBad(kids, e.nGof)],
         val |-> combinedValue(vals, e.nGof)]

\* MPMaster: calculate() on every front-end, then combinedValue(_mpfeArray,
\* _nCPU), which reads getVal() of each once its worker has the result
evaluateMP(e, ub) ==
    LET fes  == [i \in 1..e.nCPU |->
                    getVal(WorkerCompute(calculate(e.mpfeArray[i]), ub))]
        vals == [i \in 1..e.nCPU |-> fes[i].val]
    IN  [e |-> [e EXCEPT !.mpfeArray = fes, !.status = FirstBad(fes, e.nCPU)],
         val |-> combinedValue(vals, e.nCPU)]

evaluate(e, ub) ==
    LET e1 == IF ~e.init THEN initialize(e) ELSE e
    IN  IF e1.status # "ok" THEN [e |-> e1, val |-> 0]
        ELSE IF e1.gofOpMode = "SimMaster" THEN evaluateSim(e1, ub)
        ELSE IF e1.gofOpMode = "MPMaster" THEN evaluateMP(e1, ub)
        ELSE evaluateSlave(e1, ub)

(***************************************************************************)
(* The driver: one top-level engine, at most one copy of it, and the calls *)
(* made on them.  Once an engine has crashed or aborted nothing more runs. *)
(***************************************************************************)
NoEngine == [status |-> "none"]

\* the objects an engine owns: its slaves or its front-ends
Owned(e) ==
    IF e.gofOpMode = "SimMaster" THEN e.gofArray
    ELSE IF e.gofOpMode = "MPMaster" THEN e.mpfeArray ELSE <<>>

\* lastRet[slot]: the last (at most two) returns of evaluate() on the engine
\* since its last structural or selector change, oldest first
NoRet == <<>>
Returned(e, v) == [val |-> v, kids |-> [i \in 1..Len(Owned(e)) |-> Owned(e)[i].id]]
Push(rets, r) == IF Len(rets) < 2 THEN Append(rets, r) ELSE <<rets[2], r>>
HasRet(slot) == Len(lastRet[slot]) > 0
LastVal(slot) == lastRet[slot][Len(lastRet[slot])].val
Slots == {"orig", "clone"}
Eng(slot) == IF slot = "orig" THEN orig ELSE clone
Opcodes == {"Activate", "DeActivate"}

\* the selectors the driver passes to setMPSet: every valid one, and the
\* invalid ones numSets = 0, setNum < 0 and setNum = numSets
Selectors ==
    { s \in (0..MaxSets) \X (1..MaxSets) : s[1] < s[2] }
    \cup { <<0, 0>>, <<-1, MaxSets>>, <<MaxSets, MaxSets>> }

Running ==
    /\ orig.status \in {"ok", "destroyed"}
    /\ clone.status \in {"none", "ok", "destroyed"}
Idle == call.phase = "idle"

SliceIdle == sN = 0 /\ sK = 1 /\ sI = 0 /\ sBounds = <<>>

\* what lastOp records of a call: the operation, the engine it was made on
\* and whether that engine was initialized when the call arrived
Called(op, slot) == [op |-> op, slot |-> slot, wasInit |-> Eng("orig").init]

EngineInit(cpus) ==
    /\ cfg \in PlainConfigs(cpus) \cup SimConfigs(cpus)
    /\ orig = Ctor(<<1>>, 0, cfg.nCPU)
    /\ clone = NoEngine
    /\ lastOp = [op |-> "ctor", slot |-> "orig", wasInit |-> FALSE]
    /\ lastRet = [s \in Slots |-> NoRet]
    /\ call = [phase |-> "idle", slot |-> "orig", i |-> 0, acc |-> 0]
    /\ mpTrace = <<>>

Init == EngineInit(1..MaxCPU) /\ SliceIdle

SetEng(slot, e) ==
    /\ orig' = IF slot = "orig" THEN e ELSE orig
    /\ clone' = IF slot = "clone" THEN e ELSE clone

\* getVal() on an engine: evaluate() as one step
Evaluate(slot) ==
    /\ Running /\ Idle
    /\ Eng(slot).status = "ok"
    /\ \E ub \in UBOutcomes :
         LET r == evaluate(Eng(slot), ub)
         IN  /\ SetEng(slot, r.e)
             /\ lastRet' = [lastRet EXCEPT ![slot] =
                               IF r.e.status = "ok"
                               THEN Push(@, Returned(r.e, r.val))
                               ELSE NoRet]
    /\ lastOp' = Called("evaluate", slot)
    /\ UNCHANGED <<cfg, call, mpTrace, sliceVars>>

\* setMPSet(setNum,numSets) on the top-level engine
SetMPSet(setNum, numSets) ==
    /\ Running /\ Idle
    /\ orig.status = "ok"
    /\ orig' = setMPSet(orig, setNum, numSets)
    /\ lastRet' = [lastRet EXCEPT !["orig"] = NoRet]
    /\ lastOp' = Called("setMPSet", "orig")
    /\ UNCHANGED <<cfg, clone, call, mpTrace, sliceVars>>

\* redirectServers(newServerList) on the top-level engine
RedirectServers(p) ==
    /\ Running /\ Idle
    /\ orig.status = "ok"
    /\ p # orig.paramSet
    /\ orig' = redirectServers(orig, p)
    /\ lastRet' = [lastRet EXCEPT !["orig"] = NoRet]
    /\ lastOp' = Called("redirect", "orig")
    /\ UNCHANGED <<cfg, clone, call, mpTrace, sliceVars>>

\* nOpt counts the constOptimize() calls an object receives in one call made
\* by the driver: the counts are cleared when the driver makes the call
RECURSIVE ClearOpt(_)
ClearOpt(e) ==
    [e EXCEPT !.nOpt = 0,
              !.gofArray = [i \in 1..Len(e.gofArray) |-> ClearOpt(e.gofArray[i])],
              !.mpfeArray = [i \in 1..Len(e.mpfeArray) |->
                                [e.mpfeArray[i] EXCEPT !.nOpt = 0, !.arg = ClearOpt(@)]]]

\* constOptimize(opcode) on the top-level engine
ConstOptimize(opcode) ==
    /\ Running /\ Idle
    /\ orig.status = "ok"
    /\ orig' = constOptimize(ClearOpt(orig), opcode)
    /\ lastRet' = [lastRet EXCEPT !["orig"] = NoRet]
    /\ lastOp' = Called("constOptimize", "orig")
    /\ UNCHANGED <<cfg, clone, call, mpTrace, sliceVars>>

\* orig.Clone(): the copy constructor
Clone ==
    /\ Running /\ Idle
    /\ orig.status = "ok"
    /\ clone.status = "none"
    /\ \E ub \in UBOutcomes : clone' = CopyCtor(orig, <<2>>, ub)
    /\ lastOp' = Called("clone", "clone")
    /\ UNCHANGED <<cfg, orig, lastRet, call, mpTrace, sliceVars>>

\* delete of the engine in slot
Destroy(slot) ==
    /\ Running /\ Idle
    /\ Eng(slot).status = "ok"
    /\ SetEng(slot, Destructor(Eng(slot)))
    /\ lastOp' = Called("destroy", slot)
    /\ UNCHANGED <<cfg, lastRet, call, mpTrace, sliceVars>>

\* the calls of a fit on one engine
Next ==
    \/ Evaluate("orig")
    \/ \E s \in Selectors : SetMPSet(s[1], s[2])
    \/ \E p \in ParamIds : RedirectServers(p)
    \/ \E oc \in Opcodes : ConstOptimize(oc)

Spec == Init /\ [][Next]_vars

\* an engine and its copy
CloneNext ==
    \/ \E slot \in Slots : Evaluate(slot)
    \/ \E p \in ParamIds : RedirectServers(p)
    \/ Clone

SpecClone == Init /\ [][CloneNext]_vars

\* the life of an engine and its copy: both are used and deleted, in any order
LifeNext ==
    \/ \E slot \in Slots : Evaluate(slot)
    \/ Clone
    \/ \E slot \in Slots : Destroy(slot)

SpecLife == Init /\ [][LifeNext]_vars

\* the constant-term optimization passes of a fit, between evaluations
OptNext ==
    \/ Evaluate("orig")
    \/ \E oc \in Opcodes : ConstOptimize(oc)

SpecOpt == Init /\ [][OptNext]_vars

(***************************************************************************)
(* The MPMaster evaluate() step by step: the calculate() loop, the workers *)
(* that complete in any order, and the reads of combinedValue().           *)
(***************************************************************************)
AfterCalculateMutReadAtOnce(i, nCPU) == [phase |-> "read", i |-> i]
AfterCalculateMutRestart(i, nCPU) == [phase |-> "calc", i |-> 1]
AfterCalculateMutNoCombine(i, nCPU) ==
    IF i < nCPU THEN [phase |-> "calc", i |-> i + 1]
    ELSE [phase |-> "done", i |-> 0]
\* for (i=0 ; i<_nCPU ; i++) calculate() ; then combinedValue(...)
AfterCalculate(i, nCPU) ==
    IF i < nCPU THEN [phase |-> "calc", i |-> i + 1]
    ELSE [phase |-> "read", i |-> 1]

\* combinedValue(array,n) reads array[0] .. array[n-1] and then returns
AfterRead(i, nCPU) ==
    IF i < nCPU THEN [phase |-> "read", i |-> i + 1]
    ELSE [phase |-> "return", i |-> 0]

SetFE(e, i, fe) == [e EXCEPT !.mpfeArray[i] = fe, !.status = fe.status]

\* evaluate() is entered: the one-time initialization, then the loop starts
MPBegin ==
    /\ Running /\ Idle
    /\ orig.status = "ok"
    /\ orig.gofOpMode = "MPMaster"
    /\ LET e1 == IF ~orig.init THEN initialize(orig) ELSE orig
       IN  /\ orig' = e1
           /\ call' = IF e1.status = "ok"
                      THEN [phase |-> "calc", slot |-> "orig", i |-> 1, acc |-> 0]
                      ELSE call
    /\ mpTrace' = <<>>
    /\ lastOp' = Called("evaluate", "orig")
    /\ UNCHANGED <<cfg, clone, lastRet, sliceVars>>

\* _mpfeArray[i]->calculate()
MPCalculate ==
    /\ Running /\ call.phase = "calc"
    /\ orig' = SetFE(orig, call.i, calculate(orig.mpfeArray[call.i]))
    /\ mpTrace' = Append(mpTrace, <<"calc", call.i>>)
    /\ call' = [call EXCEPT !.phase = AfterCalculate(call.i, orig.nCPU).phase,
                            !.i = AfterCalculate(call.i, orig.nCPU).i]
    /\ UNCHANGED <<cfg, clone, lastOp, lastRet, sliceVars>>

\* the worker process of front-end i finishes its calculation
WorkerDone(i) ==
    /\ Running
    /\ i \in 1..Len(orig.mpfeArray)
    /\ ~orig.mpfeArray[i].inline
    /\ orig.mpfeArray[i].st = "Running" /\ ~orig.mpfeArray[i].done
    /\ \E ub \in UBOutcomes :
         orig' = SetFE(orig, i, WorkerCompute(orig.mpfeArray[i], ub))
    /\ mpTrace' = Append(mpTrace, <<"done", i>>)
    /\ UNCHANGED <<cfg, clone, lastOp, lastRet, call, sliceVars>>

\* combinedValue reads _mpfeArray[i]->getVal(): it waits for the worker, the
\* inline front-end calculates in the caller
MPRead ==
    /\ Running /\ call.phase = "read"
    /\ LET fe == orig.mpfeArray[call.i]
       IN  /\ fe.inline \/ fe.done
           /\ \E ub \in UBOutcomes :
                LET got == getVal(IF fe.inline THEN WorkerCompute(fe, ub) ELSE fe)
                IN  /\ orig' = SetFE(orig, call.i, got)
                    /\ call' = [call EXCEPT !.phase = AfterRead(call.i, orig.nCPU).phase,
                                            !.i = AfterRead(call.i, orig.nCPU).i,
                                            !.acc = @ + got.val]
    /\ mpTrace' = Append(mpTrace, <<"read", call.i>>)
    /\ UNCHANGED <<cfg, clone, lastOp, lastRet, sliceVars>>

\* evaluate() returns the combined value
MPReturn ==
    /\ Running /\ call.phase = "return"
    /\ lastRet' = [lastRet EXCEPT !["orig"] = Push(@, Returned(orig, call.acc))]
    /\ call' = [phase |-> "idle", slot |-> "orig", i |-> 0, acc |-> 0]
    /\ UNCHANGED <<cfg, orig, clone, lastOp, mpTrace, sliceVars>>

MPInit == EngineInit(2..MaxWorkers) /\ SliceIdle

MPNext ==
    \/ MPBegin
    \/ MPCalculate
    \/ \E i \in 1..MaxWorkers : WorkerDone(i)
    \/ MPRead
    \/ MPReturn

SpecMP == MPInit /\ [][MPNext]_vars

\* The caller is one sequential thread: once evaluate() is entered it takes
\* its next step whenever that step is possible.  Nothing is assumed of the
\* worker processes.  The data plays no part in the scheduling: a plain pdf.
MPLiveInit ==
    /\ EngineInit(2..MaxWorkers) /\ SliceIdle
    /\ ~cfg.sim

SpecMPLive ==
    /\ MPLiveInit /\ [][MPNext]_vars
    /\ WF_vars(MPCalculate) /\ WF_vars(MPRead) /\ WF_vars(MPReturn)

(***************************************************************************)
(* The slicing specification.                                              *)
(***************************************************************************)
EngineIdle ==
    /\ cfg = [nCPU |-> 1, sim |-> FALSE, nEvents |-> 0,
              hasPdf |-> [c \in Cats |-> FALSE],
              hasData |-> [c \in Cats |-> FALSE], splitFails |-> FALSE]
    /\ orig = Ctor(<<1>>, 0, 1)
    /\ clone = NoEngine
    /\ lastOp = [op |-> "ctor", slot |-> "orig", wasInit |-> FALSE]
    /\ lastRet = [s \in Slots |-> NoRet]
    /\ call = [phase |-> "idle", slot |-> "orig", i |-> 0, acc |-> 0]
    /\ mpTrace = <<>>

SliceSpecInit == EngineIdle /\ SliceInit
SliceSpecNext == SliceNext /\ UNCHANGED engineVars
SpecSlice == SliceSpecInit /\ [][SliceSpecNext]_vars

(***************************************************************************)
(*                              Properties                                 *)
(***************************************************************************)

\* the multiplications of the slice bounds of sN entries over sK sets stay
\* within the Int_t range
NoOverflow == sN * sK <= MaxInt

\* C1: without integer overflow the slices [nFirst(i), nLast(i)) for
\* i = 0..numSets-1 are an exact non-overlapping cover of [0, nEvents): the
\* first starts at 0, each starts where the one before ends, none is
\* reversed, and the last ends at nEvents.
C1_SlicesCoverExactly ==
    NoOverflow =>
        /\ Len(sBounds) >= 1 => sBounds[1].first = 0
        /\ \A i \in 2..Len(sBounds) : sBounds[i].first = sBounds[i - 1].last
        /\ \A i \in 1..Len(sBounds) : sBounds[i].first <= sBounds[i].last
        /\ Len(sBounds) = sK => sBounds[sK].last = sN

\* all slices of an uneven split (nEvents not a multiple of numSets) computed
C1_Witness ==
    /\ NoOverflow /\ sK >= 3 /\ sN > sK /\ sN % sK # 0
    /\ sI = sK /\ Len(sBounds) = sK

\* the value the prototype of initMPMode returns when it is evaluated
\* directly, with the selector (0,1) it is created with
DirectValue == evaluate(create(<<0>>, 0), "trap").val

\* C2: the value an MPMaster evaluate() returns, the combination over the
\* workers 0..N-1 with selectors (i,N), equals the value of the prototype
\* (Slave, or SimMaster over the populated categories) evaluated directly
\* with the selector (0,1).
C2_MPEqualsDirect ==
    (orig.gofOpMode = "MPMaster" /\ HasRet("orig")) => LastVal("orig") = DirectValue

\* an MPMaster of three workers returned a value over a dataset it had to cut
C2_Witness ==
    /\ orig.gofOpMode = "MPMaster" /\ orig.nCPU = 3 /\ HasRet("orig")
    /\ cfg.nEvents >= 2 /\ LastVal("orig") > 0

\* the parameters an owned slave or the engine of an owned front-end holds
OwnedParams(e, i) ==
    IF e.gofOpMode = "MPMaster" THEN e.mpfeArray[i].arg.paramSet
    ELSE e.gofArray[i].paramSet

\* C3: a server redirection delivered to an initialized engine reaches every
\* owned slave (SimMaster) and every owned worker front-end (MPMaster): no
\* owned object is left with the parameter identities of before.
C3_RedirectReachesAllOwned ==
    (orig.status = "ok" /\ lastOp.op = "redirect" /\ lastOp.wasInit) =>
        \A i \in 1..Len(Owned(orig)) : OwnedParams(orig, i) = orig.paramSet

\* C4: the mode-specific setup of an engine runs at most once, whichever of
\* evaluate(), setMPSet() and constOptimize() triggers it (and has run once
\* the engine is initialized), and two consecutive evaluate() calls with no
\* change in between return the same value from the same slaves/front-ends.
C4_SetupOnceAndStable ==
    /\ orig.nSetup <= 1
    /\ (orig.status = "ok" /\ orig.init /\ orig.gofOpMode # "Slave") => orig.nSetup = 1
    /\ Len(lastRet["orig"]) = 2 => lastRet["orig"][1] = lastRet["orig"][2]

\* a master returned twice in a row after its one setup
C4_Witness ==
    /\ orig.gofOpMode # "Slave" /\ Len(Owned(orig)) >= 2
    /\ Len(lastRet["orig"]) = 2 /\ orig.nSetup = 1
    /\ lastRet["orig"][2].val > 0

\* C5: no engine ever stores a selector outside 0 <= setNum < numSets: an
\* invalid setMPSet(setNum,numSets) is rejected at the call.
C5_StoredSelectorValid ==
    orig.status = "ok" => (0 <= orig.setNum /\ orig.setNum < orig.numSets)

\* C6: when the split of the dataset fails, the setup of a SimMaster stops
\* there: no category is visited, no slave is made, the array stays empty,
\* the engine is not initialized and evaluate() returns no value.
C6_FatalSplitAborts ==
    (orig.gofOpMode = "SimMaster" /\ cfg.splitFails) =>
        /\ orig.nGof = 0 /\ orig.gofArray = <<>> /\ ~orig.init
        /\ ~HasRet("orig")
        /\ \A k \in 1..Len(orig.out) : orig.out[k][1] = "abort"
        /\ lastOp.op # "ctor" /\ lastOp.op # "redirect" => orig.status = "aborted"

\* evaluate() ran into the failed split of a dataset that has a category
\* state with a pdf and data
C6_Witness ==
    /\ orig.gofOpMode = "SimMaster" /\ cfg.splitFails
    /\ \E c \in Cats : getPdf(c) /\ FindObject(c)
    /\ lastOp.op = "evaluate" /\ orig.status = "aborted"

\* the calculate() and the getVal() events of the evaluate() in progress
Calcs == SelectSeq(mpTrace, LAMBDA ev : ev[1] = "calc")
Reads == SelectSeq(mpTrace, LAMBDA ev : ev[1] = "read")

\* C7: in an MPMaster evaluate() calculate() is sent to the front-ends in
\* the order 0..N-1, all of them before any result is read, and the results
\* are read in the same order, whatever the order the workers complete in.
C7_CalculateAllThenReadInOrder ==
    /\ \A k \in 1..Len(Calcs) : Calcs[k][2] = k
    /\ \A k \in 1..Len(Reads) : Reads[k][2] = k
    /\ \A j, k \in 1..Len(mpTrace) :
          (mpTrace[j][1] = "read" /\ mpTrace[k][1] = "calc") => k < j
    /\ Len(Reads) > 0 => Len(Calcs) = orig.nCPU
    /\ call.phase = "return" => Len(Reads) = orig.nCPU

\* worker 2 completed before worker 1 and every result has been read
C7_Witness ==
    /\ orig.nCPU = 3 /\ Len(Reads) = 3
    /\ \E j, k \in 1..Len(mpTrace) :
          j < k /\ mpTrace[j] = <<"done", 2>> /\ mpTrace[k] = <<"done", 1>>

\* C8: the copy of an engine that is not initialized is made in every mode,
\* and is itself an uninitialized engine without slaves or front-ends.
C8_UninitCloneSucceeds ==
    (lastOp.op = "clone" /\ ~lastOp.wasInit) =>
        (clone.status = "ok" /\ ~clone.init /\ Len(Owned(clone)) = 0)

\* the category states with a pdf and data, in declared order
AcceptedCats ==
    SelectSeq([c \in Cats |-> c], LAMBDA c : cfg.hasPdf[c] /\ cfg.hasData[c])

\* the sum of f[1] .. f[n]
RECURSIVE SumSeq(_, _)
SumSeq(f, n) == IF n = 0 THEN 0 ELSE SumSeq(f, n - 1) + f[n]

\* the contribution of the slice (setNum,numSets) of the data subset of
\* category state c, cut by the number of entries of that subset
OwnSliceValue(c, p, setNum, numSets) ==
    evaluatePartition(c, p, nFirst(CatSize(c), setNum, numSets),
                            nLast(CatSize(c), setNum, numSets))

\* C9: setMPSet(setNum,numSets) on a SimMaster initializes it and leaves
\* every slave with the selector (setNum,numSets); a slave cuts its slice
\* out of the entries of its own category subset, not of the parent's data.
C9_SelectorReachesSlaves ==
    (orig.gofOpMode = "SimMaster" /\ orig.status = "ok") =>
        /\ lastOp.op = "setMPSet" => orig.init
        /\ \A i \in 1..Len(orig.gofArray) :
              /\ orig.gofArray[i].setNum = orig.setNum
              /\ orig.gofArray[i].numSets = orig.numSets
              /\ i <= Len(AcceptedCats) =>
                    orig.gofArray[i].nEvents = CatSize(AcceptedCats[i])
        /\ (HasRet("orig") /\ orig.numSets # 0) =>
              LastVal("orig") =
                  SumSeq([i \in 1..Len(AcceptedCats) |->
                             OwnSliceValue(AcceptedCats[i], orig.paramSet,
                                           orig.setNum, orig.numSets)],
                         Len(AcceptedCats))

\* a SimMaster with two slaves was given the selector (1,2) and evaluated
C9_Witness ==
    /\ orig.gofOpMode = "SimMaster" /\ orig.status = "ok" /\ orig.nGof = 2
    /\ orig.setNum = 1 /\ orig.numSets = 2
    /\ orig.gofArray[1].nEvents # orig.gofArray[2].nEvents
    /\ lastOp.op = "evaluate" /\ HasRet("orig") /\ LastVal("orig") > 0

\* the result of category state c computed on its own: a fresh engine for the
\* component pdf and the data subset, with the parent's parameters and selector
CategoryResult(c) ==
    evaluate(setMPSet(redirectServers(create(<<c>>, c), orig.paramSet),
                      orig.setNum, orig.numSets), "lenient").val

\* the category states initSimMode printed the no-data diagnostic for
NoDataDiagnosed(e) == { e.out[k][2] : k \in { j \in 1..Len(e.out) : e.out[j][1] = "nodata" } }

\* C10: a SimMaster has one slave for each category state with a pdf and
\* data, in declared order; its value is the sum of the results of exactly
\* those states; a state with a pdf and no data is left out with a
\* diagnostic, a state with neither (or data only) silently.
C10_SimSumsPopulated ==
    (orig.gofOpMode = "SimMaster" /\ orig.status = "ok" /\ orig.init) =>
        /\ orig.nGof = Len(AcceptedCats)
        /\ [i \in 1..Len(orig.gofArray) |-> orig.gofArray[i].cat] = AcceptedCats
        /\ NoDataDiagnosed(orig) = { c \in Cats : cfg.hasPdf[c] /\ ~cfg.hasData[c] }
        /\ HasRet("orig") =>
              LastVal("orig") =
                  SumSeq([i \in 1..Len(AcceptedCats) |-> CategoryResult(AcceptedCats[i])],
                         Len(AcceptedCats))

\* a SimMaster returned the result of its one populated state; another state
\* has a pdf and no data
C10_Witness ==
    /\ orig.gofOpMode = "SimMaster" /\ orig.status = "ok" /\ HasRet("orig")
    /\ Len(AcceptedCats) >= 1 /\ LastVal("orig") > 0
    /\ \E c \in Cats : cfg.hasPdf[c] /\ ~cfg.hasData[c]

\* C11: the mode of an engine is the one the constructor's rule gives for
\* the requested number of CPUs and the kind of pdf (more than one CPU:
\* MPMaster; else a RooSimultaneous: SimMaster; else Slave; so one CPU is
\* never MPMaster), no call made on the engine changes it, and a copy made
\* at any time has the mode of the engine it is copied from.
C11_ModeFixedAtConstruction ==
    /\ cfg.nCPU > 1 => orig.gofOpMode = "MPMaster"
    /\ (cfg.nCPU <= 1 /\ cfg.sim) => orig.gofOpMode = "SimMaster"
    /\ (cfg.nCPU <= 1 /\ ~cfg.sim) => orig.gofOpMode = "Slave"
    /\ orig.status = "ok" =>
          \A ub \in UBOutcomes : CopyCtor(orig, <<2>>, ub).gofOpMode = orig.gofOpMode

\* a one-CPU engine over a RooSimultaneous was initialized by constOptimize()
\* and has slaves
C11_Witness ==
    /\ cfg.nCPU = 1 /\ cfg.sim /\ orig.status = "ok" /\ orig.init
    /\ lastOp.op = "constOptimize" /\ orig.nGof >= 1
    /\ orig.gofOpMode = "SimMaster"

\* the selector of the engine front-end i of e wraps
WorkerSel(e, i) == <<e.mpfeArray[i].arg.setNum, e.mpfeArray[i].arg.numSets>>

\* C12: once initMPMode has run with N workers, the engine front-end i wraps
\* has the selector (i,N), i = 0..N-1 (and so have its slaves when it is a
\* SimMaster); no two front-ends have the same selector, and the selector
\* given to a later worker has not changed the one an earlier worker has.
C12_WorkerSelectorsDistinct ==
    (orig.gofOpMode = "MPMaster" /\ orig.init /\ orig.status = "ok") =>
        /\ Len(orig.mpfeArray) = orig.nCPU
        /\ \A i \in 1..orig.nCPU :
              /\ WorkerSel(orig, i) = <<i - 1, orig.nCPU>>
              /\ \A k \in 1..Len(orig.mpfeArray[i].arg.gofArray) :
                    /\ orig.mpfeArray[i].arg.gofArray[k].setNum = i - 1
                    /\ orig.mpfeArray[i].arg.gofArray[k].numSets = orig.nCPU
        /\ \A i, j \in 1..orig.nCPU : i # j => WorkerSel(orig, i) # WorkerSel(orig, j)

\* three workers over a RooSimultaneous with a populated state are set up
\* and the calculate() loop of the first evaluate() has begun
C12_Witness ==
    /\ orig.gofOpMode = "MPMaster" /\ orig.nCPU = 3 /\ orig.init
    /\ cfg.sim /\ orig.mpfeArray[1].arg.nGof >= 1
    /\ call.phase = "calc" /\ call.i = 2

\* C13: every slave of an initialized SimMaster holds the parameter
\* identities its parent holds now, whether the parent was redirected before
\* its deferred initialization (the slave is redirected when it is made) or
\* after it (the redirection is forwarded to the slave).
C13_SlavesSeeCurrentParams ==
    (orig.gofOpMode = "SimMaster" /\ orig.status = "ok" /\ orig.init) =>
        \A i \in 1..Len(orig.gofArray) : orig.gofArray[i].paramSet = orig.paramSet

\* a SimMaster that was redirected before its first evaluate() made two
\* slaves in that evaluate()
C13_Witness ==
    /\ orig.gofOpMode = "SimMaster" /\ orig.status = "ok" /\ orig.init
    /\ lastOp.op = "evaluate" /\ ~lastOp.wasInit
    /\ orig.paramSet # PdfParams /\ Len(orig.gofArray) = 2

\* C14: a constOptimize(opcode) call on a SimMaster or an MPMaster leaves the
\* engine initialized (the one setup has run, in this call when it had not
\* before), and every owned slave, or every owned front-end and the engine
\* it wraps, has received that opcode exactly once in the call; a Slave owns
\* nothing and forwards to nothing.
C14_OpcodeOnceToAllOwned ==
    (lastOp.op = "constOptimize" /\ orig.status = "ok") =>
        /\ orig.init /\ orig.nOpt = 1
        /\ orig.gofOpMode # "Slave" => orig.nSetup = 1
        /\ orig.gofOpMode = "SimMaster" =>
              /\ Len(orig.gofArray) = orig.nGof
              /\ \A i \in 1..orig.nGof :
                    /\ orig.gofArray[i].opcode = orig.opcode
                    /\ orig.gofArray[i].nOpt = 1
        /\ orig.gofOpMode = "MPMaster" =>
              /\ Len(orig.mpfeArray) = orig.nCPU
              /\ \A i \in 1..orig.nCPU :
                    /\ orig.mpfeArray[i].nOpt = 1
                    /\ orig.mpfeArray[i].arg.opcode = orig.opcode
                    /\ orig.mpfeArray[i].arg.nOpt = 1
        /\ orig.gofOpMode = "Slave" => (orig.gofArray = <<>> /\ orig.mpfeArray = <<>>)

\* the first call on an MPMaster is constOptimize(): it set up the front-ends
\* and passed them the opcode
C14_Witness ==
    /\ lastOp.op = "constOptimize" /\ ~lastOp.wasInit /\ orig.status = "ok"
    /\ orig.gofOpMode = "MPMaster" /\ orig.opcode = "DeActivate"
    /\ Len(orig.mpfeArray) = 2 /\ orig.mpfeArray[2].nOpt = 1

\* every worker process that is calculating completes eventually
WorkersFair == \A i \in 1..MaxWorkers : WF_vars(WorkerDone(i))
OthersFair(i) == \A j \in (1..MaxWorkers) \ {i} : WF_vars(WorkerDone(j))

\* the caller is inside evaluate(), before combinedValue() has every result
InCall == call.phase \in {"calc", "read"}

\* worker i was sent calculate() and has not completed
Stalled(i) ==
    /\ i <= Len(orig.mpfeArray)
    /\ ~orig.mpfeArray[i].inline
    /\ orig.mpfeArray[i].st = "Running" /\ ~orig.mpfeArray[i].done

\* the caller waits in the read of worker i, with the i-1 results before read
BlockedAt(i) == call.phase = "read" /\ call.i = i /\ Len(Reads) = i - 1

\* C15: when every worker completes its calculation the MPMaster evaluate()
\* in progress comes to return; when a worker never completes (and the
\* others do) the caller stays for ever in the read of that worker's result,
\* with the results of the workers before it read: there is no way out.
C15_ReturnsIffWorkersComplete ==
    /\ WorkersFair => (InCall ~> (call.phase = "return"))
    /\ \A i \in 1..MaxWorkers :
          (<>[]Stalled(i) /\ OthersFair(i)) => <>[]BlockedAt(i)

\* the caller waits for worker 1 while worker 2 has its result ready
C15_Witness ==
    /\ orig.nCPU = 3 /\ call.phase = "read" /\ call.i = 1
    /\ Stalled(1) /\ orig.mpfeArray[2].done

\* the front-ends that exist before and after a step
Handles == 1..Len(orig.mpfeArray)

\* the step sends calculate() to front-end i / reads the result of front-end i
CalcStep(i) == mpTrace' = Append(mpTrace, <<"calc", i>>)
ReadStep(i) == mpTrace' = Append(mpTrace, <<"read", i>>)

\* front-end i was sent calculate() in the evaluate() in progress and, unless
\* it calculates inline, its worker has completed since
FreshResult(i) ==
    \E j \in 1..Len(mpTrace) :
       /\ mpTrace[j] = <<"calc", i>>
       /\ \/ orig.mpfeArray[i].inline
          \/ \E d \in (j + 1)..Len(mpTrace) : mpTrace[d] = <<"done", i>>

\* C16 as stated: a front-end only goes Idle->Running on calculate() and
\* Running->ResultReady (or ResultReady->ResultReady) on the read of its
\* result, calculate() is only sent to an Idle front-end, and every result
\* read is the result of the calculation started in the same evaluate().
C16_CalculateOnlyWhenIdle ==
    [][\A i \in Handles :
          /\ CalcStep(i) => (orig.mpfeArray[i].st = "Idle" /\
                             orig'.mpfeArray[i].st = "Running")
          /\ ReadStep(i) => (orig.mpfeArray[i].st \in {"Running", "ResultReady"} /\
                             orig'.mpfeArray[i].st = "ResultReady" /\ FreshResult(i))
          /\ (~CalcStep(i) /\ ~ReadStep(i)) =>
                orig'.mpfeArray[i].st = orig.mpfeArray[i].st]_vars

\* C16 as amended: the front-ends are made once, Idle, and are Idle only
\* until their first calculation; calculate() is sent to a front-end that is
\* Idle or ResultReady (never to one that is Running) and makes it Running,
\* the read of its result makes it ResultReady, nothing else changes its
\* state, and every result read is the result of the calculation started in
\* the same evaluate().
C16_CalculateWhenNotRunning ==
    [][/\ (orig.init /\ orig'.init) =>
            [i \in Handles |-> orig'.mpfeArray[i].id] =
            [i \in Handles |-> orig.mpfeArray[i].id]
       /\ (~orig.init /\ orig'.init) =>
            \A i \in 1..Len(orig'.mpfeArray) : orig'.mpfeArray[i].st = "Idle"
       /\ \A i \in Handles :
            /\ CalcStep(i) => (orig.mpfeArray[i].st \in {"Idle", "ResultReady"} /\
                               orig'.mpfeArray[i].st = "Running")
            /\ ReadStep(i) => (orig.mpfeArray[i].st = "Running" /\
                               orig'.mpfeArray[i].st = "ResultReady" /\ FreshResult(i))
            /\ (~CalcStep(i) /\ ~ReadStep(i)) =>
                  orig'.mpfeArray[i].st = orig.mpfeArray[i].st]_vars

\* in the second evaluate() front-end 1 is calculating again and front-end 2
\* still has the result of the first evaluate()
C16_Witness ==
    /\ HasRet("orig") /\ call.phase = "calc" /\ call.i = 2
    /\ orig.mpfeArray[1].st = "Running" /\ orig.mpfeArray[2].st = "ResultReady"

\* the "creating slave GOF calculator #n for state c" lines an engine
\* printed, in order: <<"slave", c, n>>
SlaveLines(e) == SelectSeq(e.out, LAMBDA ev : ev[1] = "slave")

\* C17: after initSimMode the slave array has one element for each declared
\* category state with a pdf and a data subset, in declared order; the
\* filling pass accepted the states the counting pass counted (it wrote the
\* elements 0 .. _nGof-1 in turn and nothing beyond), and every slave has
\* the simCount _nGof.
C17_CountAndFillAgree ==
    (orig.gofOpMode = "SimMaster" /\ orig.status = "ok" /\ orig.init) =>
        /\ orig.nGof = Cardinality({c \in Cats : cfg.hasPdf[c] /\ cfg.hasData[c]})
        /\ Len(orig.gofArray) = orig.nGof
        /\ Len(SlaveLines(orig)) = orig.nGof
        /\ \A k \in 1..Len(SlaveLines(orig)) :
              /\ SlaveLines(orig)[k][3] = k - 1
              /\ SlaveLines(orig)[k][3] < orig.nGof
              /\ k <= Len(orig.gofArray) => orig.gofArray[k].cat = SlaveLines(orig)[k][2]
        /\ \A j, k \in 1..Len(orig.gofArray) :
              j < k => orig.gofArray[j].cat < orig.gofArray[k].cat
        /\ \A k \in 1..Len(orig.gofArray) :
              /\ cfg.hasPdf[orig.gofArray[k].cat] /\ cfg.hasData[orig.gofArray[k].cat]
              /\ orig.gofArray[k].simCount = orig.nGof

\* constOptimize() set up a SimMaster whose first declared state has a pdf
\* and no data: the one slave, element 0, is the one of the second state
C17_Witness ==
    /\ orig.gofOpMode = "SimMaster" /\ orig.status = "ok" /\ orig.init
    /\ lastOp.op = "constOptimize"
    /\ cfg.hasPdf[1] /\ ~cfg.hasData[1]
    /\ orig.nGof = 1 /\ orig.gofArray[1].cat = 2

\* the number of entries of the i-th slice computed (i = 1 is partition 0)
SliceSize(i) == sBounds[i].last - sBounds[i].first

\* C18 as stated (taken without integer overflow): the slice sizes do not
\* decrease with the partition index.
C18_SizesNonDecreasing ==
    NoOverflow =>
        \A i, j \in 1..Len(sBounds) : i < j => SliceSize(i) <= SliceSize(j)

\* C18 as amended: without integer overflow every slice has nEvents/numSets
\* entries, rounded down or up; partition 0 has the number rounded down and
\* the last partition the number rounded up.  The sizes in between go up
\* and down.
C18_SizesFloorOrCeil ==
    NoOverflow =>
        LET lo == sN \div sK
            hi == (sN + sK - 1) \div sK
        IN  /\ \A i \in 1..Len(sBounds) : SliceSize(i) \in {lo, hi}
            /\ Len(sBounds) >= 1 => SliceSize(1) = lo
            /\ Len(sBounds) = sK => SliceSize(sK) = hi

\* all slices of a split are computed and a partition has more entries
\* than a later one
C18_Witness ==
    /\ NoOverflow /\ sI = sK /\ Len(sBounds) = sK
    /\ \E i, j \in 1..sK : i < j /\ SliceSize(i) > SliceSize(j)

\* C19: at the fixed width of Int_t the slice of every valid selector lies
\* within the data, 0 <= nFirst <= nLast <= nEvents, also when the product
\* nEvents*(setNum+1) is beyond the largest Int_t.
C19_BoundsWithinData ==
    \A i \in 1..Len(sBounds) :
        /\ 0 <= sBounds[i].first
        /\ sBounds[i].first <= sBounds[i].last
        /\ sBounds[i].last <= sN

\* an engine object that exists or has existed
Made(e) == e.status \in {"ok", "destroyed"}

\* the identities of the slaves or front-ends an engine owns (owned, when its
\* destructor ran)
OwnedIds(e) == { Owned(e)[i].id : i \in 1..Len(Owned(e)) }

\* the objects the destructor of e deleted; none while e is alive
FreedIds(e) ==
    IF e.status = "destroyed" THEN { e.freed[i] : i \in 1..Len(e.freed) } ELSE {}

\* C20: a slave or a front-end belongs to one engine: an engine and its
\* copy own as many objects, and none in common; the destructor of an engine
\* deletes each object the engine owns once and no object of the other
\* engine, so that the two destructors never delete the same object.
C20_OwnedByOneEngine ==
    /\ \A e \in {orig, clone} : Made(e) =>
          /\ Cardinality(OwnedIds(e)) = Len(Owned(e))
          /\ e.status = "destroyed" =>
                /\ Len(e.freed) = Len(Owned(e))
                /\ FreedIds(e) = OwnedIds(e)
    /\ (Made(orig) /\ Made(clone)) =>
          /\ OwnedIds(orig) \cap OwnedIds(clone) = {}
          /\ FreedIds(orig) \cap OwnedIds(clone) = {}
          /\ FreedIds(clone) \cap OwnedIds(orig) = {}
          /\ (orig.init /\ clone.init) => Len(Owned(clone)) = Len(Owned(orig))
          /\ (lastOp.op = "clone" /\ lastOp.wasInit) =>
                (clone.init /\ Len(Owned(clone)) = Len(Owned(orig)))

\* the original of a copy made after initialization was deleted, with its
\* two owned objects, and the copy was evaluated afterwards
C20_Witness ==
    /\ orig.status = "destroyed" /\ Len(orig.freed) = 2
    /\ clone.status = "ok" /\ Len(Owned(clone)) = 2
    /\ lastOp.op = "evaluate" /\ lastOp.slot = "clone"
    /\ Len(lastRet["clone"]) = 1 /\ LastVal("clone") > 0

====
